---------------------------- MODULE Spec2Model ----------------------------
(***************************************************************************)
(* Model of the AI-Product-Cards pipeline: the retrying card generator of  *)
(* the console front end (ai_product_cards/generate_card.py, main) and of  *)
(* the Telegram front end (telegram_bot/gigachat_service.py and            *)
(* telegram_bot/handlers.py), the normalisation of the LLM response, the   *)
(* name-column resolver and the product search of get_product_info, the    *)
(* listings of search_products and of the two front ends, the console's    *)
(* dialogue loop, and the splitting of long Telegram messages.             *)
(*                                                                         *)
(* Python strings are modelled as sequences of one-character strings, so   *)
(* that str.lower() and the `in` substring test are computed, not assumed. *)
(* A Cyrillic character is written as its code point: "u043d" is U+043D.   *)
(***************************************************************************)
EXTENDS Integers, Sequences, FiniteSets, TLC

VARIABLES
    frontend,     \* "console" or "telegram": which front end serves the request
    state,        \* card request state: Idle, Sent, Retrying, Succeeded, Failed
    retry_count,  \* the retry loop's retry_count
    wait_time,    \* the retry loop's wait_time (0 when no wait is pending)
    calls,        \* remote calls (chain.invoke) made for the current request
    waited,       \* total time slept for the current request
    log,          \* the request's calls and sleeps in order: <<"call", n>>, <<"wait", t>>
    errors,       \* the error texts raised by the calls of the current request
    response,     \* the retry loop's result: NoResponse (None) or the response dict
    delivered,    \* what the front end rendered: "none", "card", "failure", "error"
    card_text,    \* the card text rendered with a card
    token_info,   \* the token figures rendered with a card
    send_ok,      \* Telegram accepted the card message (FALSE: the send raised)
    shown,        \* what the user was shown for the current request, in order
    columns,      \* df.columns with each column's dtype (schema resolver)
    name_col,     \* get_product_info's name_col: 0 before resolution, else a column index
    search_name_col,   \* search_products' name_col, likewise
    display_name_col,  \* handle_text's name_col, likewise
    catalog,      \* the name-column values of the catalog's records, in file order
    op,           \* the search operation that ran: "none" before any
    query,        \* the text the search operation was given
    limit,        \* the limit the listing operation was given
    product,      \* get_product_info's result: a record index, 0 for None
    results,      \* search_products' result: record indices in order
    selected,     \* the records a category listing shows
    raised,       \* the positions of the keywords whose match raised an exception
    running,      \* the console loop has not left `while True`
    empty_input_count,  \* main's empty_input_count
    lines_read,   \* the last two lines the console loop has read, in order
    branch,       \* how the console loop handled the last line
    listing_count, \* the console listing's `count`
    listed,       \* the records the console listing printed, in order
    text,         \* the text handed to send_long_message
    sent          \* the messages send_long_message has sent, in order

cardVars == <<frontend, state, retry_count, wait_time, calls, waited, log, errors,
              response, delivered, card_text, token_info, send_ok, shown>>

schemaVars == <<columns, name_col, search_name_col, display_name_col>>

searchVars == <<catalog, op, query, limit, product, results, selected, raised>>

consoleVars == <<running, empty_input_count, lines_read, branch, listing_count, listed>>

sendVars == <<text, sent>>

vars == <<cardVars, schemaVars, searchVars, consoleVars, sendVars>>

---------------------------------------------------------------------------
(* Python str operations on sequences of characters.                       *)

UpperChars == <<"A", "B", "C", "D", "E", "F", "G", "H", "I", "J", "K", "L", "M",
                "N", "O", "P", "Q", "R", "S", "T", "U", "V", "W", "X", "Y", "Z",
                "u0410", "u0411", "u0412", "u0413", "u0414", "u0415", "u0401", "u0416", "u0417", "u0418", "u0419", "u041a", "u041b", "u041c", "u041d", "u041e", "u041f",
                "u0420", "u0421", "u0422", "u0423", "u0424", "u0425", "u0426", "u0427", "u0428", "u0429", "u042a", "u042b", "u042c", "u042d", "u042e", "u042f">>

LowerChars == <<"a", "b", "c", "d", "e", "f", "g", "h", "i", "j", "k", "l", "m",
                "n", "o", "p", "q", "r", "s", "t", "u", "v", "w", "x", "y", "z",
                "u0430", "u0431", "u0432", "u0433", "u0434", "u0435", "u0451", "u0436", "u0437", "u0438", "u0439", "u043a", "u043b", "u043c", "u043d", "u043e", "u043f",
                "u0440", "u0441", "u0442", "u0443", "u0444", "u0445", "u0446", "u0447", "u0448", "u0449", "u044a", "u044b", "u044c", "u044d", "u044e", "u044f">>

\* the lower-case letter of each upper-case letter
LowerOf ==
    [c \in {UpperChars[i] : i \in 1..Len(UpperChars)} |->
        LowerChars[CHOOSE i \in 1..Len(UpperChars) : UpperChars[i] = c]]

\* str.lower() of one character
LowerChar(c) == IF c \in DOMAIN LowerOf THEN LowerOf[c] ELSE c

\* s.lower()
Lower(s) == [i \in 1..Len(s) |-> LowerChar(s[i])]

\* sub in s
Contains(s, sub) ==
    \E i \in 0..(Len(s) - Len(sub)) :
        \A j \in 1..Len(sub) : s[i + j] = sub[j]

---------------------------------------------------------------------------
(* Error classification of the two retry loops.                            *)

\* generate_card.py:342-345, the console's indicator list
ConsoleKeywords ==
    << <<"c", "o", "n", "n", "e", "c", "t", "i", "o", "n", " ", "r", "e", "s", "e", "t">>,
       <<"c", "o", "n", "n", "e", "c", "t", "t", "i", "m", "e", "o", "u", "t">>,
       <<"t", "i", "m", "e", "o", "u", "t">>,
       <<"t", "i", "m", "e", "d", " ", "o", "u", "t">>,
       <<"h", "a", "n", "d", "s", "h", "a", "k", "e">>,
       <<"s", "s", "l">> >>

\* gigachat_service.py:125, the Telegram service's indicator list
TelegramKeywords ==
    << <<"c", "o", "n", "n", "e", "c", "t", "i", "o", "n", " ", "r", "e", "s", "e", "t">>,
       <<"t", "i", "m", "e", "o", "u", "t">>,
       <<"s", "s", "l">> >>

\* any(keyword in error_msg.lower() for keyword in keywords)
AnyKeywordIn(keywords, error_msg) ==
    \E k \in 1..Len(keywords) : Contains(Lower(error_msg), keywords[k])

ConsoleIsConnectionError(error_msg) == AnyKeywordIn(ConsoleKeywords, error_msg)

TelegramIsConnectionError(error_msg) == AnyKeywordIn(TelegramKeywords, error_msg)

\* the error texts the remote call raises in the model
ErrReadTimedOut == <<"R", "e", "a", "d", " ", "t", "i", "m", "e", "d", " ", "o", "u", "t">>
ErrHandshake == <<"T", "L", "S", " ", "h", "a", "n", "d", "s", "h", "a", "k", "e", " ", "f", "a", "i", "l", "e", "d">>
ErrConnectTimeout == <<"C", "o", "n", "n", "e", "c", "t", "T", "i", "m", "e", "o", "u", "t">>
ErrConnectionReset == <<"C", "o", "n", "n", "e", "c", "t", "i", "o", "n", " ", "r", "e", "s", "e", "t", " ", "b", "y", " ", "p", "e", "e", "r">>
ErrSSL == <<"S", "S", "L", " ", "e", "r", "r", "o", "r">>
ErrUnauthorized == <<"4", "0", "1", " ", "U", "n", "a", "u", "t", "h", "o", "r", "i", "z", "e", "d">>

ErrorTexts == {ErrReadTimedOut, ErrHandshake, ErrConnectTimeout,
               ErrConnectionReset, ErrSSL, ErrUnauthorized}

---------------------------------------------------------------------------
(* Python values of the LLM response.  A dict or an object is a function   *)
(* from its keys (attributes) to their values; where the code tests the    *)
(* type or the truth value of a value, the value carries its Python type.  *)

PyNone == [py |-> "None"]
PyDict(f) == [py |-> "dict", v |-> f]
PyList(s) == [py |-> "list", v |-> s]
PyObject(f) == [py |-> "object", v |-> f]

EmptyDict == [k \in {} |-> 0]

\* bool(x) of a typed value
Truthy(x) ==
    CASE x.py = "None" -> FALSE
      [] x.py = "dict" -> DOMAIN x.v # {}
      [] x.py = "list" -> Len(x.v) > 0
      [] OTHER -> TRUE

\* key in d, hasattr(o, key)
Has(d, key) == key \in DOMAIN d

\* d.get(key, default), getattr(o, key, default)
Get(d, key, default) == IF key \in DOMAIN d THEN d[key] ELSE default

\* the string 'N/A' in a token figure; the figures themselves are >= 0
NA == -1

\* x or y, for a token figure or None (None and 'N/A' are both NA here)
PyOr(x, y) == IF x # NA /\ x # 0 THEN x ELSE y

UsageInfo(i, o, t, c) ==
    [input_tokens |-> i, output_tokens |-> o, total_tokens |-> t, cached_tokens |-> c]

Unavailable_cached_na == UsageInfo(NA, NA, NA, NA)

\* gigachat_service.py:149-154, the initial token_info
Unavailable == UsageInfo(NA, NA, NA, 0)

\* the result of the retry loop when no response was obtained (None)
NoResponse == [k \in {"none"} |-> "None"]

---------------------------------------------------------------------------
(* Response normalisation.                                                 *)

\* the indexes of the generations whose message carries a truthy usage_metadata:
\* `if hasattr(gen, 'message') and hasattr(gen.message, 'usage_metadata')`, `if usage:`
GensWithUsage(items) ==
    {i \in 1..Len(items) :
        /\ Has(items[i], "message")
        /\ Has(items[i].message, "usage_metadata")
        /\ Truthy(items[i].message.usage_metadata)}

SetMin(S) == CHOOSE m \in S : \A n \in S : m <= n

\* does the `for gen in full_gen` loop reach its `break`
HasMessageUsage(resp) ==
    /\ Has(resp, "full_generation")
    /\ resp.full_generation.py = "list"
    /\ Len(resp.full_generation.v) > 0
    /\ GensWithUsage(resp.full_generation.v) # {}

\* the usage_metadata at which the loop breaks
MessageUsage(resp) ==
    LET items == resp.full_generation.v
    IN  items[SetMin(GensWithUsage(items))].message.usage_metadata

\* GigaChatService.extract_token_info
ExtractTokenInfo(resp) ==
    IF HasMessageUsage(resp)
    THEN LET usage == MessageUsage(resp)
         IN  IF usage.py = "dict"
             THEN UsageInfo(Get(usage.v, "input_tokens", NA),
                            Get(usage.v, "output_tokens", NA),
                            Get(usage.v, "total_tokens", NA),
                            IF Has(usage.v, "input_token_details")
                            THEN Get(usage.v.input_token_details, "cache_read", 0)
                            ELSE 0)
             ELSE Unavailable
    ELSE Unavailable

\* console, priority 1: generate_card.py:403-433
ConsoleMessageUsageInfo(usage) ==
    IF usage.py = "dict"
    THEN UsageInfo(Get(usage.v, "input_tokens", Get(usage.v, "prompt_tokens", NA)),
                   Get(usage.v, "output_tokens", Get(usage.v, "completion_tokens", NA)),
                   Get(usage.v, "total_tokens", NA),
                   IF /\ Has(usage.v, "input_token_details")
                      /\ Has(usage.v.input_token_details, "cache_read")
                      /\ usage.v.input_token_details.cache_read > 0
                   THEN usage.v.input_token_details.cache_read
                   ELSE 0)
    ELSE UsageInfo(
           PyOr(PyOr(Get(usage.v, "input_tokens", NA), Get(usage.v, "prompt_tokens", NA)), NA),
           PyOr(PyOr(Get(usage.v, "output_tokens", NA), Get(usage.v, "completion_tokens", NA)), NA),
           PyOr(Get(usage.v, "total_tokens", NA), NA),
           0)

\* console, priority 2: gen_info after `gen_info = gen_info[0]` for a non-empty list
ConsoleGenInfo(resp) ==
    LET gen_info == resp.generation_info
    IN  IF Truthy(gen_info) /\ gen_info.py = "list" /\ Len(gen_info.v) > 0
        THEN gen_info.v[1]
        ELSE gen_info

\* console, priority 2: generate_card.py:436-447
HasGenInfoUsage(resp) ==
    /\ Has(resp, "generation_info")
    /\ Truthy(ConsoleGenInfo(resp))
    /\ ConsoleGenInfo(resp).py = "dict"
    /\ Has(ConsoleGenInfo(resp).v, "usage")

\* console, priority 3: generate_card.py:450-458
HasLlmOutputUsage(resp) ==
    /\ Has(resp, "llm_output")
    /\ Truthy(resp.llm_output)
    /\ Has(resp.llm_output.v, "token_usage")

\* the three prints of a prompt_tokens/completion_tokens/total_tokens usage dict
PromptUsageInfo(usage) ==
    UsageInfo(Get(usage, "prompt_tokens", NA),
              Get(usage, "completion_tokens", NA),
              Get(usage, "total_tokens", NA),
              0)

\* the token figures the console prints: generate_card.py:398-462
ConsoleTokenInfo(resp) ==
    IF HasMessageUsage(resp) THEN ConsoleMessageUsageInfo(MessageUsage(resp))
    ELSE IF HasGenInfoUsage(resp) THEN PromptUsageInfo(ConsoleGenInfo(resp).v.usage)
    ELSE IF HasLlmOutputUsage(resp) THEN PromptUsageInfo(resp.llm_output.v.token_usage)
    ELSE Unavailable

CardText_output_first(resp) == Get(resp, "output", Get(resp, "text", ""))

\* response.get('text', response.get('output', ''))
CardText(resp) == Get(resp, "text", Get(resp, "output", ""))

---------------------------------------------------------------------------
(* The responses the remote call returns in the model.  chain.invoke is    *)
(* called with return_only_outputs=False, so the dict always echoes the    *)
(* inputs (user_input) beside whatever the backend version provides.       *)

Gen(usage) == [message |-> [content |-> "card", usage_metadata |-> usage]]
GenNoUsage == [message |-> [content |-> "card"]]
GenNoMessage == [text |-> "card"]

MessageUsages ==
    { PyNone,
      PyDict(EmptyDict),
      PyDict([input_tokens |-> 21, output_tokens |-> 8, total_tokens |-> 29,
              input_token_details |-> [cache_read |-> 4]]),
      PyDict([prompt_tokens |-> 22, completion_tokens |-> 9,
              input_token_details |-> EmptyDict]),
      PyObject([input_tokens |-> 23, output_tokens |-> 0, total_tokens |-> 23]) }

FullGenerations ==
    { PyNone, PyList(<<>>), PyList(<<GenNoMessage>>) }
    \cup { PyList(<<Gen(u)>>) : u \in MessageUsages }
    \cup { PyList(<<GenNoUsage, Gen(PyDict([input_tokens |-> 24, output_tokens |-> 6,
                                            total_tokens |-> 30]))>>) }

GenerationInfos ==
    { PyNone,
      PyDict([finish_reason |-> "stop"]),
      PyDict([usage |-> [prompt_tokens |-> 32, completion_tokens |-> 9,
                         total_tokens |-> 41]]),
      PyList(<<PyDict([usage |-> [prompt_tokens |-> 33]])>>) }

LlmOutputs ==
    { PyNone,
      PyDict([model_name |-> "GigaChat"]),
      PyDict([token_usage |-> [prompt_tokens |-> 10, completion_tokens |-> 5,
                               total_tokens |-> 15]]),
      PyDict([token_usage |-> EmptyDict]) }

Optional(key, values) == {EmptyDict} \cup {key :> v : v \in values}

Responses ==
    { [user_input |-> "query"] @@ t @@ o @@ f @@ g @@ l :
        t \in Optional("text", {"CARD TEXT"}),
        o \in Optional("output", {"OUTPUT TEXT"}),
        f \in Optional("full_generation", FullGenerations),
        g \in Optional("generation_info", GenerationInfos),
        l \in Optional("llm_output", LlmOutputs) }

---------------------------------------------------------------------------
(* The retry loop: generate_card.py:321-364 (console) and                  *)
(* GigaChatService.generate_card (Telegram).                               *)

max_retries == 3

WaitTime_constant(count) == 3

\* wait_time = retry_count * 3
WaitTime(count) == count * 3

\* the loop condition `while retry_count < max_retries`
LoopContinues(count) == count < max_retries

ConsoleRetries_unclassified(error_msg, count) == count < max_retries

ConsoleRetries_after_last(error_msg, count) ==
    ConsoleIsConnectionError(error_msg) /\ count <= max_retries

\* console, generate_card.py:347-361: sleep and retry, or break
ConsoleRetries(error_msg, count) ==
    IF ConsoleIsConnectionError(error_msg)
    THEN IF count < max_retries THEN TRUE ELSE FALSE
    ELSE FALSE

TelegramRetries_after_last(error_msg, count) ==
    TelegramIsConnectionError(error_msg) /\ count <= max_retries

\* Telegram, gigachat_service.py:128-135: sleep and retry, or return None
TelegramRetries(error_msg, count) ==
    TelegramIsConnectionError(error_msg) /\ count < max_retries

FrontEnds == {"console", "telegram"}

\* the front end waits for input: nothing of a request is in progress
CardIdle(fe) ==
    /\ frontend = fe
    /\ state = "Idle"
    /\ retry_count = 0
    /\ wait_time = 0
    /\ calls = 0
    /\ waited = 0
    /\ log = <<>>
    /\ errors = <<>>
    /\ response = NoResponse
    /\ delivered = "none"
    /\ card_text = ""
    /\ token_info = Unavailable
    /\ send_ok = TRUE
    /\ shown = <<>>

SchemaIdle ==
    /\ columns = <<>>
    /\ name_col = 0
    /\ search_name_col = 0
    /\ display_name_col = 0

\* no search has run
SearchIdle ==
    /\ op = "none"
    /\ query = <<>>
    /\ limit = 0
    /\ product = 0
    /\ results = <<>>
    /\ selected = <<>>
    /\ raised = {}

\* the console loop is about to read its first line (generate_card.py:230)
ConsoleIdle ==
    /\ running = TRUE
    /\ empty_input_count = 0
    /\ lines_read = <<>>
    /\ branch = "none"
    /\ listing_count = 0
    /\ listed = <<>>

SendIdle ==
    /\ text = <<>>
    /\ sent = <<>>

Init ==
    /\ \E fe \in FrontEnds : CardIdle(fe)
    /\ SchemaIdle
    /\ catalog = <<>>
    /\ SearchIdle
    /\ ConsoleIdle
    /\ SendIdle

\* the front end waits for the next input: nothing was asked yet, or the last
\* request was rendered
Waiting == state = "Idle" \/ delivered # "none"

\* the variables of a request before its first remote call
FreshRequest ==
    /\ retry_count' = 0
    /\ wait_time' = 0
    /\ calls' = 0
    /\ waited' = 0
    /\ log' = <<>>
    /\ errors' = <<>>
    /\ response' = NoResponse
    /\ delivered' = "none"
    /\ card_text' = ""
    /\ token_info' = Unavailable
    /\ send_ok' = TRUE

\* handlers.py:222 and 234-238: the notices Telegram sends before the card of a found
\* product; the console prints nothing before the retry loop
StartRequest ==
    /\ FreshRequest
    /\ state' = IF LoopContinues(0) THEN "Sent" ELSE "Failed"
    /\ shown' = IF frontend = "telegram" THEN <<"searching", "found">> ELSE <<>>

\* a product was found and the prompt built: retry_count = 0, response = None, and
\* the loop condition is evaluated for the first time (gigachat_service.py:97-99,
\* generate_card.py:323-327)
NewRequest ==
    /\ Waiting
    /\ StartRequest
    /\ UNCHANGED <<frontend, schemaVars, searchVars, consoleVars, sendVars>>

\* chain.invoke returns: `return response` (gigachat_service.py:107-116), `break`
\* with response set (generate_card.py:331-335)
InvokeSucceeds ==
    /\ state = "Sent"
    /\ \E r \in Responses : response' = r
    /\ calls' = calls + 1
    /\ log' = Append(log, <<"call", calls + 1>>)
    /\ state' = "Succeeded"
    /\ UNCHANGED <<frontend, retry_count, wait_time, waited, errors, delivered,
                   card_text, token_info, send_ok, shown>>
    /\ UNCHANGED <<schemaVars, searchVars, consoleVars, sendVars>>

ConsoleErrorLine_always_retrying(error_msg, count) == "retry notice"

\* console, generate_card.py:347-361: the line the except block prints, the retry
\* notice before a sleep and the failure message before a break
ConsoleErrorLine(error_msg, count) ==
    IF ConsoleIsConnectionError(error_msg)
    THEN IF count < max_retries THEN "retry notice" ELSE "failure"
    ELSE "failure"

\* console, generate_card.py:337-361: chain.invoke raises, and the except block
\* runs up to the sleep or the break
ConsoleInvokeFails ==
    /\ frontend = "console"
    /\ state = "Sent"
    /\ \E e \in ErrorTexts :
        /\ errors' = Append(errors, e)
        /\ retry_count' = retry_count + 1
        /\ IF ConsoleRetries(e, retry_count + 1)
           THEN /\ wait_time' = WaitTime(retry_count + 1)
                /\ state' = "Retrying"
           ELSE /\ wait_time' = 0
                /\ state' = "Failed"
        /\ shown' = Append(shown, ConsoleErrorLine(e, retry_count + 1))
    /\ calls' = calls + 1
    /\ log' = Append(log, <<"call", calls + 1>>)
    /\ UNCHANGED <<frontend, waited, response, delivered, card_text, token_info,
                   send_ok>>
    /\ UNCHANGED <<schemaVars, searchVars, consoleVars, sendVars>>

\* Telegram, gigachat_service.py:118-135: chain.invoke raises, and the except block
\* runs up to the sleep or `return None`
TelegramInvokeFails ==
    /\ frontend = "telegram"
    /\ state = "Sent"
    /\ \E e \in ErrorTexts :
        /\ errors' = Append(errors, e)
        /\ retry_count' = retry_count + 1
        /\ IF TelegramRetries(e, retry_count + 1)
           THEN /\ wait_time' = WaitTime(retry_count + 1)
                /\ state' = "Retrying"
           ELSE /\ wait_time' = 0
                /\ state' = "Failed"
    /\ calls' = calls + 1
    /\ log' = Append(log, <<"call", calls + 1>>)
    /\ UNCHANGED <<frontend, waited, response, delivered, card_text, token_info,
                   send_ok, shown>>
    /\ UNCHANGED <<schemaVars, searchVars, consoleVars, sendVars>>

Sleep_never_returns ==
    /\ state = "Retrying"
    /\ UNCHANGED vars

\* time.sleep(wait_time), then the loop condition again (gigachat_service.py:132,
\* generate_card.py:353)
Sleep ==
    /\ state = "Retrying"
    /\ waited' = waited + wait_time
    /\ log' = Append(log, <<"wait", wait_time>>)
    /\ wait_time' = 0
    /\ state' = IF LoopContinues(retry_count) THEN "Sent" ELSE "Failed"
    /\ UNCHANGED <<frontend, retry_count, calls, errors, response, delivered,
                   card_text, token_info, send_ok, shown>>
    /\ UNCHANGED <<schemaVars, searchVars, consoleVars, sendVars>>

\* console, generate_card.py:363-462: `if response is None: continue`, else the
\* card text and the token figures are printed
ConsoleRender ==
    /\ frontend = "console"
    /\ state \in {"Succeeded", "Failed"}
    /\ delivered = "none"
    /\ IF response = NoResponse
       THEN /\ delivered' = "failure"
            /\ UNCHANGED <<card_text, token_info, shown>>
       ELSE /\ delivered' = "card"
            /\ card_text' = CardText(response)
            /\ token_info' = ConsoleTokenInfo(response)
            /\ shown' = shown \o <<"card", "tokens">>
    /\ UNCHANGED <<frontend, state, retry_count, wait_time, calls, waited, log,
                   errors, response, send_ok>>
    /\ UNCHANGED <<schemaVars, searchVars, consoleVars, sendVars>>

\* `token_info['cached_tokens'] > 0` raises TypeError for the string 'N/A'
CachedCheckRaises(info) == info.cached_tokens = NA

TelegramMessages_prompt_always(outcome) ==
    IF outcome = "failure" THEN <<"failure", "continue">>
    ELSE IF outcome = "card" THEN <<"card", "continue">>
    ELSE <<"error">>

\* handlers.py:426-463: the messages generate_and_send_card sends for an outcome:
\* the failure text, or the card and the continue prompt, or the except block's
\* error text
TelegramMessages(outcome) ==
    IF outcome = "failure" THEN <<"failure">>
    ELSE IF outcome = "card" THEN <<"card", "continue">>
    ELSE <<"error">>

\* Telegram, handlers.py:426-463: the failure message for `not response`, else the
\* card with its token figures; when building or sending the card raises (Telegram
\* rejects the message: accepted = FALSE), the except block sends the error text
TelegramRender ==
    /\ frontend = "telegram"
    /\ state \in {"Succeeded", "Failed"}
    /\ delivered = "none"
    /\ \E accepted \in BOOLEAN :
        IF response = NoResponse
        THEN /\ delivered' = "failure"
             /\ shown' = shown \o TelegramMessages("failure")
             /\ UNCHANGED <<card_text, token_info, send_ok>>
        ELSE /\ card_text' = CardText(response)
             /\ token_info' = ExtractTokenInfo(response)
             /\ send_ok' = accepted
             /\ delivered' = IF CachedCheckRaises(ExtractTokenInfo(response)) \/ ~accepted
                             THEN "error"
                             ELSE "card"
             /\ shown' = shown \o
                    TelegramMessages(IF CachedCheckRaises(ExtractTokenInfo(response))
                                          \/ ~accepted
                                     THEN "error"
                                     ELSE "card")
    /\ UNCHANGED <<frontend, state, retry_count, wait_time, calls, waited, log,
                   errors, response>>
    /\ UNCHANGED <<schemaVars, searchVars, consoleVars, sendVars>>

Next ==
    \/ NewRequest
    \/ InvokeSucceeds
    \/ ConsoleInvokeFails
    \/ TelegramInvokeFails
    \/ Sleep
    \/ ConsoleRender
    \/ TelegramRender

Spec == Init /\ [][Next]_vars

\* every remote call returns, with a response or an error, and every sleep ends
Fairness ==
    /\ WF_vars(InvokeSucceeds \/ ConsoleInvokeFails \/ TelegramInvokeFails)
    /\ WF_vars(Sleep)

FairSpec == Init /\ [][Next]_vars /\ Fairness

---------------------------------------------------------------------------
(* The card generator's retry loop: claims C1 to C5.                       *)

Str_connection_reset == <<"c", "o", "n", "n", "e", "c", "t", "i", "o", "n", " ", "r", "e", "s", "e", "t">>
Str_timeout == <<"t", "i", "m", "e", "o", "u", "t">>
Str_timed_out == <<"t", "i", "m", "e", "d", " ", "o", "u", "t">>
Str_handshake == <<"h", "a", "n", "d", "s", "h", "a", "k", "e">>
Str_ssl == <<"s", "s", "l">>

\* the error text indicates a timeout
TimeoutIndicating(e) ==
    Contains(Lower(e), Str_timeout) \/ Contains(Lower(e), Str_timed_out)

\* the error text carries a connection, timeout or TLS-handshake indicator
ConnectionTimeoutTLS(e) ==
    \/ Contains(Lower(e), Str_connection_reset)
    \/ TimeoutIndicating(e)
    \/ Contains(Lower(e), Str_handshake)
    \/ Contains(Lower(e), Str_ssl)

AllErrors(P(_)) == \A i \in 1..Len(errors) : P(errors[i])

\* C1: a card request makes at most 3 remote calls, and when every attempt failed
\* with a connection/timeout/TLS error the request ends Failed after exactly 3 calls.
C1_ThreeCallsOnRetryableErrors ==
    /\ calls <= 3
    /\ (state = "Failed" /\ AllErrors(ConnectionTimeoutTLS)) => calls = 3

\* C2: timeout errors on attempts 1 and 2 do not end the request, and when attempt 3
\* then succeeds the request is Succeeded with its response after exactly 3 calls
\* and at least 3 + 6 = 9 time units of waiting.
C2_SuccessOnThirdAttempt ==
    /\ (Len(errors) <= 2 /\ AllErrors(TimeoutIndicating)) => state # "Failed"
    /\ (Len(errors) = 2 /\ AllErrors(TimeoutIndicating) /\ calls = 3)
          => /\ state = "Succeeded"
             /\ response # NoResponse
             /\ waited >= 9

\* C3: a first error with none of the connection/timeout/TLS indicators ends the
\* request Failed after exactly 1 call, with no retry and no wait.
C3_NonConnectionErrorFailsAtOnce ==
    (Len(errors) >= 1 /\ ~ConnectionTimeoutTLS(errors[1]))
        => /\ state = "Failed"
           /\ calls = 1
           /\ log = << <<"call", 1>> >>
           /\ waited = 0
           /\ wait_time = 0
           /\ response = NoResponse

C3_Witness ==
    /\ Len(errors) = 1
    /\ ~ConnectionTimeoutTLS(errors[1])
    /\ state = "Failed"
    /\ delivered = "failure"

\* C4: the wait after the failed attempt n is exactly n * 3, it follows call n in the
\* log, and call n + 1 follows it: no two calls without the wait between them.
C4_LinearBackoffBetweenCalls ==
    /\ state = "Retrying" => wait_time = retry_count * 3
    /\ \A i \in 1..Len(log) :
         /\ log[i][1] = "wait"
              => /\ i > 1
                 /\ log[i - 1][1] = "call"
                 /\ log[i][2] = log[i - 1][2] * 3
         /\ (log[i][1] = "call" /\ i > 1)
              => /\ log[i - 1] = <<"wait", (log[i][2] - 1) * 3>>
                 /\ i > 2
                 /\ log[i - 2] = <<"call", log[i][2] - 1>>

C4_Witness ==
    log = << <<"call", 1>>, <<"wait", 3>>, <<"call", 2>>, <<"wait", 6>>, <<"call", 3>> >>

\* C5: both card generators classify every error text the same way, and an error
\* whose text contains 'timed out' or 'handshake' is retried by both.
C5_SameClassification ==
    /\ AllErrors(LAMBDA e : ConsoleIsConnectionError(e) = TelegramIsConnectionError(e))
    /\ (/\ Len(errors) = 1
        /\ Contains(Lower(errors[1]), Str_timed_out) \/ Contains(Lower(errors[1]), Str_handshake))
          => state = "Retrying"

---------------------------------------------------------------------------
(* Response normalisation: claims C6 to C9.                                *)

\* the response carries none of the three usage shapes
NoUsageShape(resp) ==
    /\ ~Has(resp, "full_generation")
    /\ ~Has(resp, "generation_info")
    /\ ~Has(resp, "llm_output")

\* llm_output.token_usage is the only usage shape of the response, with all fields
OnlyLlmOutputUsage(resp) ==
    /\ ~Has(resp, "full_generation")
    /\ ~Has(resp, "generation_info")
    /\ Has(resp, "llm_output")
    /\ resp.llm_output.py = "dict"
    /\ Has(resp.llm_output.v, "token_usage")
    /\ DOMAIN resp.llm_output.v.token_usage =
          {"prompt_tokens", "completion_tokens", "total_tokens"}

\* C6: the usage shapes are consulted in the order message-level usage, then
\* generation_info.usage, then llm_output.token_usage, and the figures reported with
\* a card are those of the first shape present: a lower shape is reported exactly
\* when every higher shape yields nothing.
C6_FixedPriorityOrder ==
    delivered = "card" =>
        /\ (HasMessageUsage(response) /\ MessageUsage(response).py = "dict"
              /\ Has(MessageUsage(response).v, "total_tokens"))
             => token_info.total_tokens = MessageUsage(response).v.total_tokens
        /\ (~HasMessageUsage(response) /\ HasGenInfoUsage(response))
             => token_info = PromptUsageInfo(ConsoleGenInfo(response).v.usage)
        /\ (~HasMessageUsage(response) /\ ~HasGenInfoUsage(response)
              /\ HasLlmOutputUsage(response))
             => token_info = PromptUsageInfo(response.llm_output.v.token_usage)
        /\ (~HasMessageUsage(response) /\ ~HasGenInfoUsage(response)
              /\ ~HasLlmOutputUsage(response))
             => token_info = UsageInfo(NA, NA, NA, 0)

\* C7: a response whose only usage shape is llm_output.token_usage with
\* prompt_tokens = p, completion_tokens = c, total_tokens = t is reported as
\* input = p, output = c, total = t, cached = 0.
C7_LlmOutputUsageReported ==
    (delivered = "card" /\ OnlyLlmOutputUsage(response)) =>
        LET usage == response.llm_output.v.token_usage
        IN  /\ token_info.input_tokens = usage.prompt_tokens
            /\ token_info.output_tokens = usage.completion_tokens
            /\ token_info.total_tokens = usage.total_tokens
            /\ token_info.cached_tokens = 0

C9_CardTextFallback ==
    (state = "Succeeded" /\ delivered # "none") =>
        card_text = IF "text" \in DOMAIN response THEN response.text
                    ELSE IF "output" \in DOMAIN response THEN response.output
                    ELSE ""

C9_Witness ==
    /\ delivered = "card"
    /\ "text" \notin DOMAIN response
    /\ "output" \in DOMAIN response
    /\ card_text = "OUTPUT TEXT"

\* the number of times a message occurs in what the user was shown
Occurrences(message, messages) ==
    Cardinality({i \in 1..Len(messages) : messages[i] = message})

\* C20: when a card request ends Failed, the front end reports a failure message,
\* renders no card, and is ready for the next request.
C20_FailureReported ==
    /\ state = "Failed" =>
          /\ card_text = ""
          /\ Occurrences("card", shown) = 0
          /\ frontend = "console" => Occurrences("failure", shown) = 1
    /\ (state = "Failed" /\ delivered # "none") =>
          /\ delivered = "failure"
          /\ Occurrences("failure", shown) = 1
          /\ Occurrences("error", shown) = 0
          /\ ENABLED NewRequest

C20_Witness ==
    /\ frontend = "telegram"
    /\ state = "Failed"
    /\ Len(errors) = max_retries
    /\ delivered = "failure"
    /\ shown = <<"searching", "found", "failure">>

\* the front end's own retry loop takes the error for a connection error
Retryable(e) ==
    IF frontend = "console" THEN ConsoleIsConnectionError(e)
    ELSE TelegramIsConnectionError(e)

Terminal(s) == s \in {"Succeeded", "Failed"}

\* C24: once a card request is Succeeded or Failed, no further remote call and no
\* further wait is made for it: the request's log ends with the call that decided
\* it, and calls and waits stay as they are until the next request starts afresh.
C24_TerminalStatesFinal ==
    [][/\ Terminal(state') =>
            /\ log' # <<>>
            /\ log'[Len(log')] = <<"call", calls'>>
            /\ wait_time' = 0
       /\ Terminal(state) =>
            \/ /\ state' = state
               /\ calls' = calls
               /\ waited' = waited
               /\ log' = log
               /\ errors' = errors
            \/ /\ delivered # "none"
               /\ state' = "Sent"
               /\ calls' = 0
               /\ waited' = 0
               /\ log' = <<>>]_vars

C24_Witness ==
    /\ frontend = "telegram"
    /\ state = "Failed"
    /\ delivered = "failure"
    /\ calls = 3
    /\ waited = 9
    /\ log[Len(log)] = <<"call", 3>>

\* C25: provided every remote call returns, every card request that was sent
\* reaches Succeeded or Failed: the retry loop does not run forever.
C25_RequestTerminates ==
    (state \in {"Sent", "Retrying"}) ~> Terminal(state)

C25_Witness ==
    /\ state = "Succeeded"
    /\ calls = max_retries
    /\ Len(errors) = max_retries - 1
    /\ delivered = "none"

---------------------------------------------------------------------------
(* The name-column resolver of get_product_info: utils.py:83-103 and       *)
(* generate_card.py:106-129.  A column is its header and its pandas dtype; *)
(* pandas.read_csv yields non-empty, pairwise distinct headers.            *)

Column(name, dtype) == [name |-> name, dtype |-> dtype]

possible_names ==
    << <<"n", "a", "m", "e">>,
       <<"t", "i", "t", "l", "e">>,
       <<"p", "r", "o", "d", "u", "c", "t">>,
       <<"d", "e", "s", "c", "r", "i", "p", "t", "i", "o", "n">>,
       <<"u043d", "u0430", "u0437", "u0432", "u0430", "u043d", "u0438", "u0435">>,
       <<"u043d", "u0430", "u0438", "u043c", "u0435", "u043d", "u043e", "u0432", "u0430", "u043d", "u0438", "u0435">> >>

Str_id == <<"i", "d">>

\* the columns at which the first loop stops: `if possible in col_lower`
CandidateColumns(cols) ==
    {i \in 1..Len(cols) :
        \E p \in 1..Len(possible_names) :
            Contains(Lower(cols[i].name), possible_names[p])}

TextualColumns_with_id(cols) == {i \in 1..Len(cols) : cols[i].dtype = "object"}

\* the columns at which the second loop stops:
\* `df[col].dtype == 'object' and col.lower() != 'id'`
TextualColumns(cols) ==
    {i \in 1..Len(cols) : cols[i].dtype = "object" /\ Lower(cols[i].name) # Str_id}

ResolveNameColumn_last_column(cols) ==
    IF CandidateColumns(cols) # {} THEN SetMin(CandidateColumns(cols))
    ELSE IF TextualColumns(cols) # {} THEN SetMin(TextualColumns(cols))
    ELSE Len(cols)

\* name_col of get_product_info, as an index into df.columns
ResolveNameColumn(cols) ==
    IF CandidateColumns(cols) # {} THEN SetMin(CandidateColumns(cols))
    ELSE IF TextualColumns(cols) # {} THEN SetMin(TextualColumns(cols))
    ELSE 1

\* `'name' if 'name' in df.columns else df.columns[0]`, as an index into df.columns
NameOrFirstColumn(cols) ==
    LET named == {i \in 1..Len(cols) : cols[i].name = <<"n", "a", "m", "e">>}
    IN  IF named # {} THEN SetMin(named) ELSE 1

\* the columns catalogs are built from in the model
Col_name == Column(<<"n", "a", "m", "e">>, "object")
Col_Name == Column(<<"N", "a", "m", "e">>, "object")
Col_title == Column(<<"t", "i", "t", "l", "e">>, "object")
Col_product_id == Column(<<"p", "r", "o", "d", "u", "c", "t", "_", "i", "d">>, "int64")
Col_id == Column(<<"i", "d">>, "int64")
Col_ID == Column(<<"I", "D">>, "object")
Col_price == Column(<<"p", "r", "i", "c", "e">>, "float64")
Col_brand == Column(<<"b", "r", "a", "n", "d">>, "object")
Col_Nazvanie == Column(<<"u041d", "u0430", "u0437", "u0432", "u0430", "u043d", "u0438", "u0435">>, "object")
Col_sku == Column(<<"s", "k", "u">>, "object")

ColumnPool == {Col_name, Col_Name, Col_title, Col_product_id, Col_id, Col_ID, Col_price, Col_brand, Col_Nazvanie, Col_sku}

MaxColumns == 3

\* the column lists of the model: pairwise distinct columns, at least one
Schemas ==
    UNION { {c \in [1..n -> ColumnPool] : \A i, j \in 1..n : i # j => c[i] # c[j]} :
            n \in 1..MaxColumns }

InitSchema ==
    /\ CardIdle("console")
    /\ columns \in Schemas
    /\ name_col = 0
    /\ search_name_col = 0
    /\ display_name_col = 0
    /\ catalog = <<>>
    /\ SearchIdle
    /\ ConsoleIdle
    /\ SendIdle

\* get_product_info resolves the name column of the catalog
ResolveColumn ==
    /\ name_col = 0
    /\ name_col' = ResolveNameColumn(columns)
    /\ UNCHANGED <<columns, search_name_col, display_name_col>>
    /\ UNCHANGED <<cardVars, searchVars, consoleVars, sendVars>>

\* utils.py:157: search_products takes its own name column
SearchColumn ==
    /\ search_name_col = 0
    /\ search_name_col' = NameOrFirstColumn(columns)
    /\ UNCHANGED <<columns, name_col, display_name_col>>
    /\ UNCHANGED <<cardVars, searchVars, consoleVars, sendVars>>

\* handlers.py:232: handle_text takes the column it shows the found product's name from
DisplayColumn ==
    /\ display_name_col = 0
    /\ display_name_col' = NameOrFirstColumn(columns)
    /\ UNCHANGED <<columns, name_col, search_name_col>>
    /\ UNCHANGED <<cardVars, searchVars, consoleVars, sendVars>>

NextSchema ==
    \/ ResolveColumn
    \/ SearchColumn
    \/ DisplayColumn

SchemaSpec == InitSchema /\ [][NextSchema]_vars

Str_name == <<"n", "a", "m", "e">>

\* C10: when a catalog has a column named 'name' (case-insensitively), the resolved
\* name column is a column of that name, whatever other candidate-named columns
\* exist and wherever they sit.
C10_NameColumnPreferred ==
    (name_col # 0 /\ \E i \in 1..Len(columns) : Lower(columns[i].name) = Str_name)
        => Lower(columns[name_col].name) = Str_name

\* a textual column whose name is not 'id', whatever its case
TextualNotId(c) == c.dtype = "object" /\ Lower(c.name) # Str_id

\* C11: for a catalog in which no column name contains a candidate token and at
\* least one column is textual with a name other than 'id', the resolved name
\* column is the first such column in declared order.
C11_FirstTextualColumn ==
    (/\ name_col # 0
     /\ CandidateColumns(columns) = {}
     /\ \E i \in 1..Len(columns) : TextualNotId(columns[i]))
        => /\ name_col \in 1..Len(columns)
           /\ TextualNotId(columns[name_col])
           /\ \A j \in 1..(name_col - 1) : ~TextualNotId(columns[j])

C11_Witness ==
    /\ columns = <<Col_ID, Col_price, Col_sku>>
    /\ name_col = 3

\* C12: resolving the name column yields exactly one column of the catalog for every
\* schema and never fails: the candidate rule, else the textual rule, else the first
\* column.
C12_ResolverTotal ==
    [][ResolveColumn =>
          /\ name_col' \in 1..Len(columns)
          /\ \/ name_col' \in CandidateColumns(columns)
             \/ CandidateColumns(columns) = {} /\ TextualNotId(columns[name_col'])
             \/ /\ CandidateColumns(columns) = {}
                /\ \A i \in 1..Len(columns) : ~TextualNotId(columns[i])
                /\ name_col' = 1]_vars

C12_Witness ==
    /\ columns = <<Col_id, Col_price, Col_ID>>
    /\ name_col = 1

\* C27: on one catalog get_product_info, search_products and the code that shows
\* the found product's name all use the same name column.
C27_OneNameColumn ==
    (name_col # 0 /\ search_name_col # 0 /\ display_name_col # 0)
        => (name_col = search_name_col /\ name_col = display_name_col)

---------------------------------------------------------------------------
(* Product search: get_product_info (utils.py:62-132, the same algorithm   *)
(* as generate_card.py:77-168) and search_products (utils.py:135-184).     *)
(* A catalog is the sequence of its records' name-column values; a record  *)
(* is identified by its position in the catalog.                           *)

Whitespace == {" ", "\t"}

RECURSIVE SplitFrom(_, _, _, _)
\* the scan behind str.split(): `word` is the token being read, `tokens` those done
SplitFrom(s, i, word, tokens) ==
    IF i > Len(s)
    THEN IF word = <<>> THEN tokens ELSE Append(tokens, word)
    ELSE IF s[i] \in Whitespace
         THEN SplitFrom(s, i + 1, <<>>, IF word = <<>> THEN tokens ELSE Append(tokens, word))
         ELSE SplitFrom(s, i + 1, Append(word, s[i]), tokens)

\* s.split(): the maximal runs of non-whitespace characters, in order
Split(s) == SplitFrom(s, 1, <<>>, <<>>)

Str_laptop == <<"l", "a", "p", "t", "o", "p">>

Str_notebook == <<"n", "o", "t", "e", "b", "o", "o", "k">>

Str_noutbuk == <<"u043d", "u043e", "u0443", "u0442", "u0431", "u0443", "u043a">>

Str_headphone == <<"h", "e", "a", "d", "p", "h", "o", "n", "e">>

Str_earphone == <<"e", "a", "r", "p", "h", "o", "n", "e">>

Str_earbud == <<"e", "a", "r", "b", "u", "d">>

Str_naushniki == <<"u043d", "u0430", "u0443", "u0448", "u043d", "u0438", "u043a",
                   "u0438">>

Str_speaker == <<"s", "p", "e", "a", "k", "e", "r">>

Str_kolonka == <<"u043a", "u043e", "u043b", "u043e", "u043d", "u043a", "u0430">>

Str_phone == <<"p", "h", "o", "n", "e">>

Str_smartphone == <<"s", "m", "a", "r", "t", "p", "h", "o", "n", "e">>

Str_telefon == <<"u0442", "u0435", "u043b", "u0435", "u0444", "u043e", "u043d">>

Str_camera == <<"c", "a", "m", "e", "r", "a">>

Str_kamera == <<"u043a", "u0430", "u043c", "u0435", "u0440", "u0430">>

Str_tablet == <<"t", "a", "b", "l", "e", "t">>

Str_ipad == <<"i", "p", "a", "d">>

Str_planshet == <<"u043f", "u043b", "u0430", "u043d", "u0448", "u0435", "u0442">>

\* utils.py:74-81, the synonyms dict of get_product_info in insertion order
synonyms ==
    << [key |-> Str_noutbuk, values |-> <<Str_laptop, Str_notebook, Str_noutbuk>>],
       [key |-> Str_naushniki,
        values |-> <<Str_headphone, Str_earphone, Str_earbud, Str_naushniki>>],
       [key |-> Str_kolonka, values |-> <<Str_speaker, Str_kolonka>>],
       [key |-> Str_telefon, values |-> <<Str_phone, Str_smartphone, Str_telefon>>],
       [key |-> Str_kamera, values |-> <<Str_camera, Str_kamera>>],
       [key |-> Str_planshet, values |-> <<Str_tablet, Str_ipad, Str_planshet>>] >>

\* utils.py:147-154, the synonyms dict of search_products in insertion order
category_synonyms ==
    << [key |-> Str_noutbuk, values |-> <<Str_laptop, Str_notebook>>],
       [key |-> Str_naushniki, values |-> <<Str_headphone, Str_earphone, Str_earbud>>],
       [key |-> Str_kolonka, values |-> <<Str_speaker>>],
       [key |-> Str_telefon, values |-> <<Str_phone, Str_smartphone>>],
       [key |-> Str_kamera, values |-> <<Str_camera>>],
       [key |-> Str_planshet, values |-> <<Str_tablet, Str_ipad>>] >>

\* `k in d` for a dict given as its items in order
DictHas(d, k) == \E i \in 1..Len(d) : d[i].key = k

\* d[k]
DictGet(d, k) == d[CHOOSE i \in 1..Len(d) : d[i].key = k].values

RECURSIVE ExpandKeywords(_, _)
\* utils.py:112-117: each token, followed by its synonyms when it is a key
ExpandKeywords(tokens, k) ==
    IF k > Len(tokens) THEN <<>>
    ELSE <<tokens[k]>>
         \o (IF DictHas(synonyms, tokens[k]) THEN DictGet(synonyms, tokens[k]) ELSE <<>>)
         \o ExpandKeywords(tokens, k + 1)

Keywords_no_synonyms(q) == Split(Lower(q))

Keywords_alternates_last(q) == Split(Lower(q)) \o ExpandKeywords(Split(Lower(q)), 1)

\* utils.py:110-117: search_keywords of get_product_info
Keywords(q) == ExpandKeywords(Split(Lower(q)), 1)

\* the positions of the records of df
Rows(df) == [i \in 1..Len(df) |-> i]

ExactMatches_case_sensitive(q, df) == SelectSeq(Rows(df), LAMBDA i : df[i] = q)

\* utils.py:106: df[df[name_col].astype(str).str.lower() == query.lower()]
ExactMatches(q, df) == SelectSeq(Rows(df), LAMBDA i : Lower(df[i]) = Lower(q))

\* utils.py:123-125 and 174-176: the records whose lower-cased name contains the
\* pattern as a literal substring, in file order
NameMatches(pattern, df) == SelectSeq(Rows(df), LAMBDA i : Contains(Lower(df[i]), pattern))

LongEnough_any(keyword) == Len(keyword) > 0

\* `if len(keyword) > 2`
LongEnough(keyword) == Len(keyword) > 2

RECURSIVE FirstHit_propagating(_, _, _, _)
FirstHit_propagating(keywords, k, df, raises) ==
    IF k > Len(keywords) THEN 0
    ELSE IF LongEnough(keywords[k]) /\ k \in raises THEN 0 - 1
    ELSE IF LongEnough(keywords[k]) /\ NameMatches(keywords[k], df) # <<>>
         THEN NameMatches(keywords[k], df)[1]
         ELSE FirstHit_propagating(keywords, k + 1, df, raises)

RECURSIVE FirstHit(_, _, _, _)
\* utils.py:119-132: the first record of the first keyword that matches any, else None;
\* the pattern is re.escape(keyword) searched as a regular expression, that is the
\* keyword itself as a literal.  raises holds the positions of the keywords whose
\* match raises: `except Exception: continue` goes on with the next keyword
FirstHit(keywords, k, df, raises) ==
    IF k > Len(keywords) THEN 0
    ELSE IF LongEnough(keywords[k]) /\ k \notin raises
            /\ NameMatches(keywords[k], df) # <<>>
         THEN NameMatches(keywords[k], df)[1]
         ELSE FirstHit(keywords, k + 1, df, raises)

\* utils.py:105-132: the record found for a query, 0 for None
get_product_info(q, df, raises) ==
    IF ExactMatches(q, df) # <<>> THEN ExactMatches(q, df)[1]
    ELSE FirstHit(Keywords(q), 1, df, raises)

\* the characters re.escape puts a backslash before
SpecialChars ==
    {"(", ")", "[", "]", "{", "}", "?", "*", "+", "-", "|", "^", "$", "\\", ".", "&",
     "~", "#", " ", "\t"}

RECURSIVE ReEscape(_)
\* re.escape(keyword)
ReEscape(keyword) ==
    IF keyword = <<>> THEN <<>>
    ELSE (IF Head(keyword) \in SpecialChars THEN <<"\\", Head(keyword)>> ELSE <<Head(keyword)>>)
         \o ReEscape(Tail(keyword))

\* utils.py:160-167: the values of the first key contained in the query, else the
\* query's tokens
CategoryKeywords(q) ==
    LET hits == {i \in 1..Len(category_synonyms) :
                    Contains(Lower(q), category_synonyms[i].key)}
    IN  IF hits # {} THEN category_synonyms[SetMin(hits)].values ELSE Split(Lower(q))

RECURSIVE SearchHits(_, _, _, _)
\* utils.py:169-182: the matches of the first keyword that has any; the pattern is
\* re.escape(keyword) searched as a literal (regex=False); a keyword whose match
\* raises is passed over (`except Exception: continue`)
SearchHits(keywords, k, df, raises) ==
    IF k > Len(keywords) THEN <<>>
    ELSE IF LongEnough(keywords[k]) /\ k \notin raises
            /\ NameMatches(ReEscape(keywords[k]), df) # <<>>
         THEN NameMatches(ReEscape(keywords[k]), df)
         ELSE SearchHits(keywords, k + 1, df, raises)

\* DataFrame.head(n) for n >= 0
FirstRows(rows, n) == SubSeq(rows, 1, IF n < Len(rows) THEN n ELSE Len(rows))

\* utils.py:135-184: the records search_products returns, in order
search_products(q, df, n, raises) ==
    FirstRows(SearchHits(CategoryKeywords(q), 1, df, raises), n)

\* the product names catalogs are built from in the model

Name_SonySpeakerStand == <<"S", "o", "n", "y", " ", "S", "p", "e", "a", "k", "e", "r",
                           " ", "S", "t", "a", "n", "d">>

Name_SonySpeaker == <<"S", "o", "n", "y", " ", "S", "p", "e", "a", "k", "e", "r">>

Name_WirelessEarbudsPro == <<"W", "i", "r", "e", "l", "e", "s", "s", " ", "E", "a",
                             "r", "b", "u", "d", "s", " ", "P", "r", "o">>

Name_LaptopPro15 == <<"L", "a", "p", "t", "o", "p", " ", "P", "r", "o", " ", "1", "5">>

Name_TV == <<"T", "V">>

Name_SmartTV == <<"S", "m", "a", "r", "t", " ", "T", "V">>

Name_YandexKolonka == <<"u042f", "u043d", "u0434", "u0435", "u043a", "u0441", " ",
                        "u041a", "u043e", "u043b", "u043e", "u043d", "u043a", "u0430">>

NamePool == {Name_SonySpeakerStand,
             Name_SonySpeaker,
             Name_WirelessEarbudsPro,
             Name_LaptopPro15,
             Name_TV,
             Name_SmartTV,
             Name_YandexKolonka}

MaxRecords == 2

\* the list lengths the program treats specially: the console's 20
\* (generate_card.py:259), the quantity command's 50 (handlers.py:309) and the
\* category search's 100 (handlers.py:347)
console_cap == 20

quantity_cap == 50

category_search_limit == 100

\* catalogs of a few different products, the empty catalog included
SmallCatalogs == UNION {[1..n -> NamePool] : n \in 0..MaxRecords}

\* catalogs of many laptops, as many as a cap and one more
LargeCatalogs ==
    {[i \in 1..n |-> Name_LaptopPro15] :
        n \in {console_cap, console_cap + 1, quantity_cap, quantity_cap + 1,
               category_search_limit, category_search_limit + 1}}

Catalogs == SmallCatalogs \cup LargeCatalogs

\* the queries of the model

Query_SONY_SPEAKER == <<"S", "O", "N", "Y", " ", "S", "P", "E", "A", "K", "E", "R">>

Query_naushniki == <<"u043d", "u0430", "u0443", "u0448", "u043d", "u0438", "u043a",
                     "u0438">>

Query_kupit_Naushniki == <<"u043a", "u0443", "u043f", "u0438", "u0442", "u044c", " ",
                           "u041d", "u0430", "u0443", "u0448", "u043d", "u0438",
                           "u043a", "u0438">>

Query_kolonka == <<"u043a", "u043e", "u043b", "u043e", "u043d", "u043a", "u0430">>

Query_ya == <<"u044f">>

Query_tv == <<"t", "v">>

Query_pro == <<"p", "r", "o">>

Query_xyz == <<"x", "y", "z">>

Query_noutbuk == <<"u043d", "u043e", "u0443", "u0442", "u0431", "u0443", "u043a">>

Query_smart_speaker == <<"s", "m", "a", "r", "t", " ", "s", "p", "e", "a", "k", "e", "r">>

Query_kolonka_smart == <<"u043a", "u043e", "u043b", "u043e", "u043d", "u043a", "u0430",
                         " ", "s", "m", "a", "r", "t">>

Queries == {Query_SONY_SPEAKER,
            Query_kolonka_smart,
            Query_naushniki,
            Query_kupit_Naushniki,
            Query_kolonka,
            Query_ya,
            Query_tv,
            Query_pro,
            Query_xyz,
            Query_noutbuk,
            Query_smart_speaker}

\* the limits search_products is called with: 5 (handlers.py:386), the default 10
\* (utils.py:135), 100 (handlers.py:347), and the small ones
Limits == {0, 1, 5, 10, category_search_limit}

InitSearch ==
    /\ \E fe \in FrontEnds : CardIdle(fe)
    /\ SchemaIdle
    /\ catalog \in Catalogs
    /\ SearchIdle
    /\ ConsoleIdle
    /\ SendIdle

\* the keywords of one search whose match may raise: none, or any one of them
Raising(keywords) == {{}} \cup {{k} : k \in 1..Len(keywords)}

\* get_product_info(query, df) is applied to a query
FindOne ==
    /\ op = "none"
    /\ \E q \in Queries : \E raises \in Raising(Keywords(q)) :
        /\ query' = q
        /\ raised' = raises
        /\ product' = get_product_info(q, catalog, raises)
        /\ op' = IF raises = {} THEN "find_one" ELSE "find_one_raised"
    /\ UNCHANGED <<catalog, limit, results, selected>>
    /\ UNCHANGED <<cardVars, schemaVars, consoleVars, sendVars>>

SearchProducts_in_place ==
    /\ op = "none"
    /\ \E q \in Queries, n \in Limits : \E raises \in Raising(CategoryKeywords(q)) :
        /\ query' = q
        /\ limit' = n
        /\ raised' = raises
        /\ results' = search_products(q, catalog, n, raises)
        /\ catalog' = [i \in 1..Len(search_products(q, catalog, n, raises)) |->
                          catalog[search_products(q, catalog, n, raises)[i]]]
        /\ op' = IF raises = {} THEN "search_products" ELSE "search_products_raised"
    /\ UNCHANGED <<product, selected>>
    /\ UNCHANGED <<cardVars, schemaVars, consoleVars, sendVars>>

\* search_products(query, df, limit) is applied to a query and a limit
SearchProducts ==
    /\ op = "none"
    /\ \E q \in Queries, n \in Limits : \E raises \in Raising(CategoryKeywords(q)) :
        /\ query' = q
        /\ limit' = n
        /\ raised' = raises
        /\ results' = search_products(q, catalog, n, raises)
        /\ op' = IF raises = {} THEN "search_products" ELSE "search_products_raised"
    /\ UNCHANGED <<catalog, product, selected>>
    /\ UNCHANGED <<cardVars, schemaVars, consoleVars, sendVars>>


---------------------------------------------------------------------------
(* The listings of the Telegram front end: handle_text (handlers.py:187-243), *)
(* parse_quantity_command (handlers.py:245-312), show_random_products      *)
(* (handlers.py:314-341), show_category_products (handlers.py:343-381) and *)
(* handle_not_found (handlers.py:383-415).                                 *)

Digits == <<"0", "1", "2", "3", "4", "5", "6", "7", "8", "9">>

DigitChars == {Digits[i] : i \in 1..Len(Digits)}

\* the characters the regular expression class \w matches
WordChars ==
    DigitChars \cup {"_"} \cup {LowerChars[i] : i \in 1..Len(LowerChars)}
               \cup {UpperChars[i] : i \in 1..Len(UpperChars)}

\* int(c) for one digit
DigitValue(c) == (CHOOSE i \in 1..Len(Digits) : Digits[i] = c) - 1

RECURSIVE ParseInt(_)
\* int(s) for a string of digits
ParseInt(s) ==
    IF s = <<>> THEN 0
    ELSE ParseInt(SubSeq(s, 1, Len(s) - 1)) * 10 + DigitValue(s[Len(s)])

RECURSIVE RunEnd(_, _, _)
\* the last position of the longest run of characters of `chars` that starts at
\* position i, i - 1 when there is none
RunEnd(s, i, chars) ==
    IF i <= Len(s) /\ s[i] \in chars THEN RunEnd(s, i + 1, chars) ELSE i - 1

\* s.strip()
Strip(s) ==
    LET solid == {i \in 1..Len(s) : s[i] \notin Whitespace}
    IN  IF solid = {} THEN <<>>
        ELSE SubSeq(s, SetMin(solid), CHOOSE i \in solid : \A j \in solid : j <= i)

\* a match of `word\s+(\d+)\s+(\w+)` at position i, or of `(\d+)\s+(\w+)` when the
\* word is empty: the two groups, <<>> when the pattern does not match there
MatchAt(s, i, word) ==
    LET p == i + Len(word)
        a == IF word = <<>> THEN p ELSE RunEnd(s, p, Whitespace) + 1
        b == RunEnd(s, a, DigitChars)
        c == RunEnd(s, b + 1, Whitespace)
        e == RunEnd(s, c + 1, WordChars)
    IN  IF /\ p - 1 <= Len(s)
           /\ SubSeq(s, i, p - 1) = word
           /\ word # <<>> => a > p
           /\ b >= a
           /\ c >= b + 1
           /\ e >= c + 1
        THEN <<SubSeq(s, a, b), SubSeq(s, c + 1, e)>>
        ELSE <<>>

\* re.search(pattern, s): the leftmost match
Search(s, word) ==
    LET starts == {i \in 1..Len(s) : MatchAt(s, i, word) # <<>>}
    IN  IF starts = {} THEN <<>> ELSE MatchAt(s, SetMin(starts), word)

Str_vyvedi == <<"u0432", "u044b", "u0432", "u0435", "u0434", "u0438">>

Str_pokazhi == <<"u043f", "u043e", "u043a", "u0430", "u0436", "u0438">>

Str_pervyh == <<"u043f", "u0435", "u0440", "u0432", "u044b", "u0445">>

Str_spisok == <<"u0441", "u043f", "u0438", "u0441", "u043e", "u043a">>

\* handlers.py:290-296: the patterns, each by the word it starts with
patterns == <<Str_vyvedi, Str_pokazhi, Str_pervyh, Str_spisok, <<>>>>

\* handlers.py:257-288: the category of each spelling (the titles are left out)
categories ==
    << [key |-> <<"u043d", "u043e", "u0443", "u0442", "u0431", "u0443", "u043a">>,
        values |-> Str_noutbuk],
       [key |-> <<"u043d", "u043e", "u0443", "u0442", "u0431", "u0443", "u043a", "u043e", "u0432">>,
        values |-> Str_noutbuk],
       [key |-> <<"u043d", "u043e", "u0443", "u0442", "u0431", "u0443", "u043a", "u0430">>,
        values |-> Str_noutbuk],
       [key |-> <<"u043d", "u043e", "u0443", "u0442", "u0431", "u0443", "u043a", "u0438">>,
        values |-> Str_noutbuk],
       [key |-> <<"l", "a", "p", "t", "o", "p">>,
        values |-> Str_noutbuk],
       [key |-> <<"l", "a", "p", "t", "o", "p", "s">>,
        values |-> Str_noutbuk],
       [key |-> <<"n", "o", "t", "e", "b", "o", "o", "k">>,
        values |-> Str_noutbuk],
       [key |-> <<"n", "o", "t", "e", "b", "o", "o", "k", "s">>,
        values |-> Str_noutbuk],
       [key |-> <<"u043d", "u0430", "u0443", "u0448", "u043d", "u0438", "u043a", "u0438">>,
        values |-> Str_naushniki],
       [key |-> <<"u043d", "u0430", "u0443", "u0448", "u043d", "u0438", "u043a">>,
        values |-> Str_naushniki],
       [key |-> <<"u043d", "u0430", "u0443", "u0448", "u043d", "u0438", "u043a", "u043e", "u0432">>,
        values |-> Str_naushniki],
       [key |-> <<"u043d", "u0430", "u0443", "u0448", "u043d", "u0438", "u043a", "u0430">>,
        values |-> Str_naushniki],
       [key |-> <<"h", "e", "a", "d", "p", "h", "o", "n", "e">>,
        values |-> Str_naushniki],
       [key |-> <<"h", "e", "a", "d", "p", "h", "o", "n", "e", "s">>,
        values |-> Str_naushniki],
       [key |-> <<"e", "a", "r", "p", "h", "o", "n", "e">>,
        values |-> Str_naushniki],
       [key |-> <<"e", "a", "r", "p", "h", "o", "n", "e", "s">>,
        values |-> Str_naushniki],
       [key |-> <<"e", "a", "r", "b", "u", "d">>,
        values |-> Str_naushniki],
       [key |-> <<"e", "a", "r", "b", "u", "d", "s">>,
        values |-> Str_naushniki],
       [key |-> <<"u043a", "u043e", "u043b", "u043e", "u043d", "u043a", "u0430">>,
        values |-> Str_kolonka],
       [key |-> <<"u043a", "u043e", "u043b", "u043e", "u043d", "u043a", "u0438">>,
        values |-> Str_kolonka],
       [key |-> <<"u043a", "u043e", "u043b", "u043e", "u043d", "u043e", "u043a">>,
        values |-> Str_kolonka],
       [key |-> <<"s", "p", "e", "a", "k", "e", "r">>,
        values |-> Str_kolonka],
       [key |-> <<"s", "p", "e", "a", "k", "e", "r", "s">>,
        values |-> Str_kolonka],
       [key |-> <<"u0442", "u0435", "u043b", "u0435", "u0444", "u043e", "u043d">>,
        values |-> Str_telefon],
       [key |-> <<"u0442", "u0435", "u043b", "u0435", "u0444", "u043e", "u043d", "u0430">>,
        values |-> Str_telefon],
       [key |-> <<"u0442", "u0435", "u043b", "u0435", "u0444", "u043e", "u043d", "u043e", "u0432">>,
        values |-> Str_telefon],
       [key |-> <<"p", "h", "o", "n", "e">>,
        values |-> Str_telefon],
       [key |-> <<"p", "h", "o", "n", "e", "s">>,
        values |-> Str_telefon],
       [key |-> <<"s", "m", "a", "r", "t", "p", "h", "o", "n", "e">>,
        values |-> Str_telefon],
       [key |-> <<"s", "m", "a", "r", "t", "p", "h", "o", "n", "e", "s">>,
        values |-> Str_telefon] >>

RECURSIVE ParseFrom(_, _)
\* handlers.py:298-310: the first pattern that matches with a known category word
ParseFrom(text_lower, p) ==
    IF p > Len(patterns) THEN <<>>
    ELSE LET match == Search(text_lower, patterns[p])
         IN  IF match # <<>> /\ DictHas(categories, match[2])
             THEN [quantity |-> ParseInt(match[1]), category |-> DictGet(categories, match[2])]
             ELSE ParseFrom(text_lower, p + 1)

quantity_uncapped(quantity) == quantity

\* handlers.py:309: quantity = min(quantity, 50)
quantity_capped(quantity) == IF quantity < quantity_cap THEN quantity ELSE quantity_cap

\* handlers.py:245-312: the capped quantity and the category, <<>> for None
parse_quantity_command(message_text) ==
    LET parsed == ParseFrom(Lower(message_text), 1)
    IN  IF parsed = <<>> THEN <<>>
        ELSE [quantity |-> quantity_capped(parsed.quantity), category |-> parsed.category]

\* random.sample(rows, k) and DataFrame.sample(k) pick any k of the rows; the model
\* takes the runs of k consecutive rows
Samples(rows, k) == {SubSeq(rows, o + 1, o + k) : o \in 0..(Len(rows) - k)}

\* handlers.py:343 and 193: the default limit of a listing
default_limit == 10

\* handlers.py:386: the limit of the suggestions for a query that found nothing
suggestion_limit == 5

\* min(a, b)
Min(a, b) == IF a < b THEN a ELSE b

\* the keyboard buttons and the messages of the model

Button_list == <<"u1f4cb", " ", "u0421", "u043f", "u0438", "u0441", "u043e", "u043a",
                 " ", "u0442", "u043e", "u0432", "u0430", "u0440", "u043e", "u0432">>

Button_headphones == <<"u1f3a7", " ", "u041d", "u0430", "u0443", "u0448", "u043d",
                       "u0438", "u043a", "u0438">>

Button_laptops == <<"u1f4bb", " ", "u041d", "u043e", "u0443", "u0442", "u0431",
                    "u0443", "u043a", "u0438">>

Text_pokazhi_60_noutbukov == <<"u043f", "u043e", "u043a", "u0430", "u0436", "u0438",
                               " ", "6", "0", " ", "u043d", "u043e", "u0443", "u0442",
                               "u0431", "u0443", "u043a", "u043e", "u0432">>

Text_vyvedi_51_laptop == <<"u0412", "u044b", "u0432", "u0435", "u0434", "u0438", " ",
                           "5", "1", " ", "l", "a", "p", "t", "o", "p">>

Text_5_naushnikov == <<"5", " ", "u043d", "u0430", "u0443", "u0448", "u043d", "u0438",
                       "u043a", "u043e", "u0432">>

Text_pervyh_50_laptops == <<"u043f", "u0435", "u0440", "u0432", "u044b", "u0445", " ",
                            "5", "0", " ", "l", "a", "p", "t", "o", "p", "s">>

Text_spisok_20_tovarov == <<"u0441", "u043f", "u0438", "u0441", "u043e", "u043a", " ",
                            "2", "0", " ", "u0442", "u043e", "u0432", "u0430", "u0440",
                            "u043e", "u0432">>

Text_pokazhi_0_noutbuk == <<"u043f", "u043e", "u043a", "u0430", "u0436", "u0438", " ",
                            "0", " ", "u043d", "u043e", "u0443", "u0442", "u0431",
                            "u0443", "u043a">>

Text_3_speakers == <<" ", "3", " ", "s", "p", "e", "a", "k", "e", "r", "s", " ", " ">>

Text_daj_100_notebooks == <<"u0434", "u0430", "u0439", " ", "1", "0", "0", " ", "n",
                            "o", "t", "e", "b", "o", "o", "k", "s">>

Text_Sony_Speaker == <<"S", "o", "n", "y", " ", "S", "p", "e", "a", "k", "e", "r">>

Text_naushniki == <<"u043d", "u0430", "u0443", "u0448", "u043d", "u0438", "u043a",
                    "u0438">>

Text_xyz == <<"x", "y", "z">>

Text_noutbuki == <<"u043d", "u043e", "u0443", "u0442", "u0431", "u0443", "u043a",
                   "u0438">>

TelegramTexts == {Button_list,
                  Button_headphones,
                  Button_laptops,
                  Text_pokazhi_60_noutbukov,
                  Text_vyvedi_51_laptop,
                  Text_5_naushnikov,
                  Text_pervyh_50_laptops,
                  Text_spisok_20_tovarov,
                  Text_pokazhi_0_noutbuk,
                  Text_3_speakers,
                  Text_daj_100_notebooks,
                  Text_Sony_Speaker,
                  Text_naushniki,
                  Text_xyz, Text_noutbuki}

\* handlers.py:343-381: the category is searched with limit 100 and `limit` of the
\* records found are sampled
show_category_products(category, n) ==
    LET category_products == search_products(category, catalog, category_search_limit, {})
    IN  /\ op' = "category_listing"
        /\ limit' = n
        /\ results' = category_products
        /\ selected' \in Samples(category_products, Min(n, Len(category_products)))
        /\ product' = 0

\* handlers.py:314-341: `limit` records of the whole catalog are sampled
show_random_products(n) ==
    /\ op' = "random_listing"
    /\ limit' = n
    /\ results' = <<>>
    /\ selected' \in Samples(Rows(catalog), Min(n, Len(catalog)))
    /\ product' = 0

\* handlers.py:219-243 and 383-415: the product is looked up; when there is none,
\* handle_not_found searches up to five suggestions
find_or_suggest(user_input) ==
    /\ op' = "telegram_query"
    /\ product' = get_product_info(user_input, catalog, {})
    /\ IF product' = 0
       THEN /\ limit' = suggestion_limit
            /\ results' = search_products(user_input, catalog, suggestion_limit, {})
       ELSE /\ limit' = 0
            /\ results' = <<>>
    /\ selected' = <<>>

\* handlers.py:187-243: a text message arrives (the help and the "one more card"
\* buttons, which touch nothing of the search, are left out)
HandleText ==
    /\ op = "none"
    /\ \E message_text \in TelegramTexts :
        LET user_input == Strip(message_text)
        IN  /\ query' = user_input
            /\ IF user_input = Button_list THEN show_random_products(default_limit)
               ELSE IF user_input = Button_headphones
                    THEN show_category_products(Str_naushniki, default_limit)
               ELSE IF user_input = Button_laptops
                    THEN show_category_products(Str_noutbuk, default_limit)
               ELSE IF parse_quantity_command(user_input) # <<>>
                    THEN show_category_products(parse_quantity_command(user_input).category,
                                                parse_quantity_command(user_input).quantity)
               ELSE find_or_suggest(user_input)
    /\ UNCHANGED <<catalog, raised>>
    /\ UNCHANGED <<cardVars, schemaVars, consoleVars, sendVars>>

NextSearch ==
    \/ FindOne
    \/ SearchProducts
    \/ HandleText

SearchSpec == InitSearch /\ [][NextSearch]_vars

\* C13: find_one returns the first record in catalog order whose name equals the
\* full query case-insensitively whenever such a record exists, even when an
\* earlier record matches one of the query's keywords as a substring.
C13_ExactMatchFirst ==
    (op = "find_one" /\ \E i \in 1..Len(catalog) : Lower(catalog[i]) = Lower(query))
        => /\ product \in 1..Len(catalog)
           /\ Lower(catalog[product]) = Lower(query)
           /\ \A j \in 1..(product - 1) : Lower(catalog[j]) # Lower(query)

C13_Witness ==
    /\ op = "find_one"
    /\ query = Query_SONY_SPEAKER
    /\ catalog = <<Name_SonySpeakerStand, Name_SonySpeaker>>
    /\ product = 2

\* the tokens of the query that are keys of the synonym dictionary
KeyTokens(q) ==
    {k \in 1..Len(Split(Lower(q))) : DictHas(synonyms, Split(Lower(q))[k])}

\* the name of record i contains an alternate of one of the query's key tokens
HasAlternate(q, df, i) ==
    \E k \in KeyTokens(q) :
        \E a \in 1..Len(DictGet(synonyms, Split(Lower(q))[k])) :
            Contains(Lower(df[i]), DictGet(synonyms, Split(Lower(q))[k])[a])

\* C14: for a query with a token that is a synonym key, when no record's name
\* contains a token of the query, find_one returns a record whose name contains one
\* of that key's alternates, if the catalog has such a record.
C14_SynonymExpansion ==
    (/\ op = "find_one"
     /\ KeyTokens(query) # {}
     /\ \A i \in 1..Len(catalog) :
            \A k \in 1..Len(Split(Lower(query))) :
                ~Contains(Lower(catalog[i]), Split(Lower(query))[k])
     /\ \E i \in 1..Len(catalog) : HasAlternate(query, catalog, i))
        => /\ product \in 1..Len(catalog)
           /\ HasAlternate(query, catalog, product)

C14_Witness ==
    /\ op = "find_one"
    /\ query = Query_naushniki
    /\ catalog = <<Name_LaptopPro15, Name_WirelessEarbudsPro>>
    /\ product = 2

\* C15 as stated: a query consisting only of a token of at most two characters
\* yields not-found.
C15_ShortTokenNotFound ==
    (/\ op = "find_one"
     /\ Len(Split(Lower(query))) = 1
     /\ Len(Split(Lower(query))[1]) <= 2)
        => product = 0

\* C15: a token of at most two characters is never used as a search keyword: a
\* query consisting only of such a token yields not-found unless a record's name
\* equals the whole query case-insensitively, and then that record is returned.
C15_ShortTokenOnlyExact ==
    (/\ op = "find_one"
     /\ Len(Split(Lower(query))) = 1
     /\ Len(Split(Lower(query))[1]) <= 2)
        => \/ product = 0 /\ \A i \in 1..Len(catalog) : Lower(catalog[i]) # Lower(query)
           \/ product \in 1..Len(catalog) /\ Lower(catalog[product]) = Lower(query)

C15_Witness ==
    /\ op = "find_one"
    /\ query = Query_tv
    /\ catalog = <<Name_SmartTV, Name_SonySpeaker>>
    /\ product = 0

TokenBlock(word) ==
    <<word>> \o (IF DictHas(synonyms, word) THEN DictGet(synonyms, word) ELSE <<>>)

RECURSIVE KeywordOrder(_)
KeywordOrder(tokens) ==
    IF tokens = <<>> THEN <<>>
    ELSE TokenBlock(Head(tokens)) \o KeywordOrder(Tail(tokens))

Least(S) == CHOOSE x \in S : \A y \in S : x <= y

Matching(keyword, df) == {i \in 1..Len(df) : Contains(Lower(df[i]), keyword)}

\* C26: when the exact pass of find_one finds nothing, the keywords are the query
\* tokens in query order, each immediately followed by its alternates in declared
\* order; the result is the first record in catalog order that contains the first
\* keyword longer than two characters that any record contains, whatever later
\* keywords would match, and not-found when no such keyword exists.
C26_FirstMatchingKeyword ==
    (op = "find_one" /\ \A i \in 1..Len(catalog) : Lower(catalog[i]) # Lower(query)) =>
        LET ks == KeywordOrder(Split(Lower(query)))
            hits == {k \in 1..Len(ks) : Len(ks[k]) > 2 /\ Matching(ks[k], catalog) # {}}
        IN  IF hits = {} THEN product = 0
            ELSE product = Least(Matching(ks[Least(hits)], catalog))

\* 'speaker', the alternate of the first token, is tried before the second token
\* 'smart', which the first record contains
C26_Witness ==
    /\ op = "find_one"
    /\ query = Query_kolonka_smart
    /\ catalog = <<Name_SmartTV, Name_SonySpeaker>>
    /\ product = 2

\* C21: a keyword whose match raises is treated as a keyword without a match and
\* the loop goes on: find_one returns the hit of the first keyword that neither
\* raises nor is too short nor is without a match, or not-found, and
\* search_products returns that keyword's records up to the limit, or the empty
\* list; neither returns an error.
C21_KeywordFailureSkipped ==
    /\ op = "find_one_raised" =>
          /\ product \in 0..Len(catalog)
          /\ (\A i \in 1..Len(catalog) : Lower(catalog[i]) # Lower(query)) =>
                LET ks == KeywordOrder(Split(Lower(query)))
                    hits == {k \in (1..Len(ks)) \ raised :
                                Len(ks[k]) > 2 /\ Matching(ks[k], catalog) # {}}
                IN  IF hits = {} THEN product = 0
                    ELSE product = Least(Matching(ks[Least(hits)], catalog))
    /\ op = "search_products_raised" =>
          LET ks == CategoryKeywords(query)
              hits == {k \in (1..Len(ks)) \ raised :
                          Len(ks[k]) > 2 /\ Matching(ReEscape(ks[k]), catalog) # {}}
          IN  IF hits = {} THEN results = <<>>
              ELSE results = FirstRows(NameMatches(ReEscape(ks[Least(hits)]), catalog), limit)

\* the match of 'speaker' raises and the later keyword 'smart' gives the record
C21_Witness ==
    /\ op = "find_one_raised"
    /\ query = Query_kolonka_smart
    /\ catalog = <<Name_SmartTV, Name_SonySpeaker>>
    /\ raised = {2}
    /\ product = 1

\* C29: no search and no listing modifies the catalog: its records, their order
\* and its columns stay as they were loaded.
C29_CatalogUnchanged ==
    [][catalog' = catalog /\ columns' = columns]_vars

\* a search that kept one record of two left both in the catalog
C29_Witness ==
    /\ op = "search_products"
    /\ query = Query_kolonka
    /\ catalog = <<Name_SmartTV, Name_SonySpeaker>>
    /\ limit = 5
    /\ results = <<2>>

---------------------------------------------------------------------------
(* The console dialogue: the `while True` loop of main, generate_card.py:230-316, *)
(* up to the product search.  The card request that follows a found product *)
(* is the retry loop above.                                                *)

Str_exit == <<"e", "x", "i", "t">>

Str_vyhod == <<"u0432", "u044b", "u0445", "u043e", "u0434">>

Str_quit == <<"q", "u", "i", "t">>

Str_q == <<"q">>

Str_daj == <<"u0434", "u0430", "u0439">>

Str_pervye == <<"u043f", "u0435", "u0440", "u0432", "u044b", "u0435">>

Str_vse == <<"u0432", "u0441", "u0435">>

\* generate_card.py:246: the exit commands
exit_commands == {Str_exit, Str_vyhod, Str_quit, Str_q}

IsExitCommand_exact(user_input) == user_input \in exit_commands

\* generate_card.py:246: user_input.strip().lower() in [...]
IsExitCommand(user_input) == Lower(Strip(user_input)) \in exit_commands

\* generate_card.py:252
list_keywords == <<Str_spisok, Str_pokazhi, Str_daj, Str_vyvedi, Str_pervye, Str_vse>>

\* generate_card.py:253: any(word in user_input.lower() for word in list_keywords)
IsListRequest(user_input) ==
    \E k \in 1..Len(list_keywords) : Contains(Lower(user_input), list_keywords[k])

\* generate_card.py:257: re.findall(r'\d+', user_input)[0], <<>> when the list is empty
FirstNumber(user_input) ==
    LET digits == {i \in 1..Len(user_input) : user_input[i] \in DigitChars}
    IN  IF digits = {} THEN <<>>
        ELSE SubSeq(user_input, SetMin(digits), RunEnd(user_input, SetMin(digits), DigitChars))

\* generate_card.py:258: the count of a request that names none
default_count == 5

ListingCount_uncapped(user_input) ==
    IF FirstNumber(user_input) # <<>> THEN ParseInt(FirstNumber(user_input))
    ELSE default_count

\* generate_card.py:257-259: count
ListingCount(user_input) ==
    Min(IF FirstNumber(user_input) # <<>> THEN ParseInt(FirstNumber(user_input))
        ELSE default_count,
        console_cap)

\* generate_card.py:276-284: the first word of the request that is a category
\* (the dict of generate_card.py:266-273 is that of search_products), 0 when none
CategoryWord(user_input) ==
    LET words == Split(Lower(user_input))
        found == {k \in 1..Len(words) : DictHas(category_synonyms, words[k])}
    IN  IF found = {} THEN <<>> ELSE words[SetMin(found)]

RECURSIVE Filtered(_, _, _)
\* generate_card.py:288-293: the matches of the first keyword that has any, the whole
\* catalog when none has
Filtered(keywords, k, df) ==
    IF k > Len(keywords) THEN Rows(df)
    ELSE IF NameMatches(keywords[k], df) # <<>> THEN NameMatches(keywords[k], df)
         ELSE Filtered(keywords, k + 1, df)

\* generate_card.py:286-306: the records the listing prints, in order
Listing(user_input, df) ==
    IF CategoryWord(user_input) # <<>>
    THEN FirstRows(Filtered(DictGet(category_synonyms, CategoryWord(user_input)), 1, df),
                   ListingCount(user_input))
    ELSE FirstRows(Rows(df), ListingCount(user_input))

\* the lines typed at the prompt in the model

Line_empty == <<>>

Line_spaces == <<" ", " ">>

Line_exit == <<"e", "x", "i", "t">>

Line_EXIT_padded == <<" ", "E", "X", "I", "T", " ">>

Line_Vyhod == <<"u0412", "u044b", "u0445", "u043e", "u0434">>

Line_quit == <<"q", "u", "i", "t">>

Line_q == <<"q">>

Line_exit_now == <<"e", "x", "i", "t", " ", "n", "o", "w">>

Line_pokazhi_30_noutbuk == <<"u043f", "u043e", "u043a", "u0430", "u0436", "u0438", " ",
                             "3", "0", " ", "u043d", "u043e", "u0443", "u0442",
                             "u0431", "u0443", "u043a">>

Line_spisok == <<"u0441", "u043f", "u0438", "u0441", "u043e", "u043a">>

Line_daj_7_naushniki == <<"u0414", "u0430", "u0439", " ", "7", " ", "u043d", "u0430",
                          "u0443", "u0448", "u043d", "u0438", "u043a", "u0438">>

Line_vse_25_tovarov_3 == <<"u0432", "u0441", "u0435", " ", "2", "5", " ", "u0442",
                           "u043e", "u0432", "u0430", "u0440", "u043e", "u0432", " ",
                           "3">>

Line_pokazhi_0 == <<"u043f", "u043e", "u043a", "u0430", "u0436", "u0438", " ", "0">>

Line_laptop == <<"l", "a", "p", "t", "o", "p">>

Line_kolonka == <<"u043a", "u043e", "u043b", "u043e", "u043d", "u043a", "u0430">>

Line_vyvedi_5_noutbukov == <<"u0432", "u044b", "u0432", "u0435", "u0434", "u0438", " ",
                             "5", " ", "u043d", "u043e", "u0443", "u0442", "u0431",
                             "u0443", "u043a", "u043e", "u0432">>

ConsoleLines == {Line_empty,
                 Line_vyvedi_5_noutbukov,
                 Line_spaces,
                 Line_exit,
                 Line_EXIT_padded,
                 Line_Vyhod,
                 Line_quit,
                 Line_q,
                 Line_exit_now,
                 Line_pokazhi_30_noutbuk,
                 Line_spisok,
                 Line_daj_7_naushniki,
                 Line_vse_25_tovarov_3,
                 Line_pokazhi_0,
                 Line_laptop,
                 Line_kolonka}

\* the catalogs of the console dialogues of the model
ConsoleCatalogs ==
    {<<>>, <<Name_WirelessEarbudsPro, Name_LaptopPro15>>, <<Name_SonySpeaker>>}
        \cup {df \in LargeCatalogs : Len(df) <= console_cap + 1}

InitConsole ==
    /\ CardIdle("console")
    /\ SchemaIdle
    /\ catalog \in ConsoleCatalogs
    /\ SearchIdle
    /\ ConsoleIdle
    /\ SendIdle

\* the last two of the lines read
LastTwo(read) == SubSeq(read, IF Len(read) > 2 THEN Len(read) - 1 ELSE 1, Len(read))

\* generate_card.py:231-316: one line is read and handled: an empty line is counted
\* and the second in a row ends the loop, an exit command ends it, a list request
\* prints a listing, anything else is searched as a product
ConsoleLine ==
    /\ running
    /\ \E user_input \in ConsoleLines :
        /\ lines_read' = LastTwo(Append(lines_read, user_input))
        /\ IF Strip(user_input) = <<>>
           THEN /\ branch' = "empty"
                /\ empty_input_count' = empty_input_count + 1
                /\ running' = ~(empty_input_count + 1 >= 2)
                /\ UNCHANGED <<listing_count, listed, query, product>>
           ELSE /\ empty_input_count' = 0
                /\ IF IsExitCommand(user_input)
                   THEN /\ branch' = "exit"
                        /\ running' = FALSE
                        /\ UNCHANGED <<listing_count, listed, query, product>>
                   ELSE IF IsListRequest(user_input)
                   THEN /\ branch' = "listing"
                        /\ listing_count' = ListingCount(user_input)
                        /\ listed' = Listing(user_input, catalog)
                        /\ UNCHANGED <<running, query, product>>
                   ELSE /\ branch' = "query"
                        /\ query' = user_input
                        /\ product' = get_product_info(user_input, catalog, {})
                        /\ UNCHANGED <<running, listing_count, listed>>
    /\ UNCHANGED <<catalog, op, limit, results, selected, raised>>
    /\ UNCHANGED <<cardVars, schemaVars, sendVars>>

NextConsole == ConsoleLine

ConsoleSpec == InitConsole /\ [][NextConsole]_vars

\* the lines of the model that are empty once trimmed, and those that are an exit
\* token once trimmed and lower-cased
EmptyLines == {Line_empty, Line_spaces}

ExitLines == {Line_exit, Line_EXIT_padded, Line_Vyhod, Line_quit, Line_q}

\* C17: a console listing's count is the first integer found in the input, 5 when
\* there is none, capped at 20, and the listing never has more lines than that.
C17_ConsoleListingCap ==
    branch = "listing" =>
        /\ listing_count <= console_cap
        /\ Len(listed) <= listing_count
        /\ lines_read[Len(lines_read)] = Line_pokazhi_30_noutbuk => listing_count = 20
        /\ lines_read[Len(lines_read)] = Line_spisok => listing_count = 5
        /\ lines_read[Len(lines_read)] = Line_daj_7_naushniki => listing_count = 7
        /\ lines_read[Len(lines_read)] = Line_vse_25_tovarov_3 => listing_count = 20
        /\ lines_read[Len(lines_read)] = Line_pokazhi_0 => listing_count = 0

C17_Witness ==
    /\ branch = "listing"
    /\ lines_read = <<Line_empty, Line_pokazhi_30_noutbuk>>
    /\ Len(catalog) = console_cap + 1
    /\ listing_count = console_cap
    /\ Len(listed) = console_cap

\* C18: the console loop has ended exactly when the last line read is an exit token
\* (trimmed, case-insensitive) or the last two lines read are both empty; a
\* non-empty line between two empty lines keeps the loop going.
C18_LoopTermination ==
    ~running <=>
        \/ /\ Len(lines_read) >= 1
           /\ lines_read[Len(lines_read)] \in ExitLines
        \/ /\ Len(lines_read) = 2
           /\ lines_read[1] \in EmptyLines
           /\ lines_read[2] \in EmptyLines

C18_Witness ==
    /\ ~running
    /\ lines_read = <<Line_spaces, Line_empty>>
    /\ empty_input_count = 2

\* C28: a listing request whose lower-cased text contains a synonym key as a
\* substring ('ноутбуков' contains 'ноутбук') is searched by that key's alternates
\* only: when some record contains one of them, every record listed does.
C28_CategoryBySubstring ==
    branch = "listing" =>
        LET line == Lower(lines_read[Len(lines_read)])
            keys == {i \in 1..Len(category_synonyms) :
                        Contains(line, category_synonyms[i].key)}
        IN  keys # {} =>
                LET alternates == category_synonyms[SetMin(keys)].values
                    OfCategory(r) ==
                        \E a \in 1..Len(alternates) :
                            Contains(Lower(catalog[r]), alternates[a])
                IN  (\E r \in 1..Len(catalog) : OfCategory(r))
                        => \A j \in 1..Len(listed) : OfCategory(listed[j])

---------------------------------------------------------------------------
(* send_long_message, handlers.py:498-510.  A character of the text is     *)
(* written as its position in the text, so that a character lost, repeated *)
(* or moved by the split shows in the messages sent.                       *)

\* handlers.py:498: max_length
max_length == 4096

\* text[i:i + max_length] for the k-th value of i in range(0, len(text), max_length)
Part(message_text, k) ==
    SubSeq(message_text, (k - 1) * max_length + 1, Min(k * max_length, Len(message_text)))

\* len(range(0, n, max_length))
PartCount(n) == (n + max_length - 1) \div max_length

send_long_message_truncating(message_text) == <<Part(message_text, 1)>>

\* handlers.py:498-510: the messages sent for a text, in order
send_long_message(message_text) ==
    IF Len(message_text) <= max_length THEN <<message_text>>
    ELSE [k \in 1..PartCount(Len(message_text)) |-> Part(message_text, k)]

MaxShortText == 60

\* the lengths of the texts of the model: the short ones, and those around one, two
\* and three full messages
TextLengths ==
    (0..MaxShortText)
        \cup {max_length - 1, max_length, max_length + 1, 2 * max_length,
              2 * max_length + 1, 3 * max_length - 1}

Texts == {[i \in 1..n |-> i] : n \in TextLengths}

InitSend ==
    /\ CardIdle("telegram")
    /\ SchemaIdle
    /\ catalog = <<>>
    /\ SearchIdle
    /\ ConsoleIdle
    /\ text \in Texts
    /\ sent = <<>>

\* send_long_message(chat_id, text) runs, every send accepted
SendLongMessage ==
    /\ sent = <<>>
    /\ sent' = send_long_message(text)
    /\ UNCHANGED text
    /\ UNCHANGED <<cardVars, schemaVars, searchVars, consoleVars>>

NextSend == SendLongMessage

SendSpec == InitSend /\ [][NextSend]_vars

RECURSIVE Concatenation(_)
\* the messages joined in order
Concatenation(messages) ==
    IF messages = <<>> THEN <<>>
    ELSE Concatenation(SubSeq(messages, 1, Len(messages) - 1)) \o messages[Len(messages)]

\* C19: send_long_message sends a text of at most 4096 characters as exactly one
\* message, and a longer text as consecutive chunks of at most 4096 characters each,
\* in order, whose concatenation is the text.
C19_SplitPreservesText ==
    sent # <<>> =>
        /\ Len(text) <= 4096 => sent = <<text>>
        /\ Len(text) > 4096 =>
              /\ Len(sent) >= 2
              /\ \A k \in 1..Len(sent) : Len(sent[k]) >= 1 /\ Len(sent[k]) <= 4096
              /\ Concatenation(sent) = text

C19_Witness ==
    /\ Len(text) = 2 * max_length + 1
    /\ Len(sent) = 3
    /\ Len(sent[3]) = 1
    /\ sent[3][1] = 2 * max_length + 1

---------------------------------------------------------------------------
(* A request from the typed query to the card: handle_text                 *)
(* (handlers.py:219-243) with handle_not_found (handlers.py:383-415), and  *)
(* the console loop's search (generate_card.py:312-316), each followed by  *)
(* the retry loop above.                                                   *)

\* the catalogs and the queries of the requests of the model
RequestCatalogs == {<<Name_SmartTV, Name_SonySpeaker>>, <<Name_LaptopPro15>>}

RequestQueries == {Query_kolonka, Query_pro, Query_xyz, Text_noutbuki}

\* handlers.py:189-217: the stripped texts that are neither a button nor a
\* quantity command, so that handle_text goes on to the search
FreeTexts ==
    {Strip(message_text) : message_text \in
        {m \in RequestQueries :
            /\ Strip(m) \notin {Button_list, Button_headphones, Button_laptops}
            /\ parse_quantity_command(Strip(m)) = <<>>}}

\* generate_card.py:233-253: the lines that are not empty, no exit command and no
\* list request, so that the loop goes on to the search
ConsoleQueries ==
    {user_input \in RequestQueries :
        /\ Strip(user_input) # <<>>
        /\ ~IsExitCommand(user_input)
        /\ ~IsListRequest(user_input)}

Found_always(product_info) == TRUE

\* `if not product_info` (handlers.py:226, generate_card.py:314) is not taken
Found(product_info) == product_info # 0

InitRequest ==
    /\ \E fe \in FrontEnds : CardIdle(fe)
    /\ SchemaIdle
    /\ catalog \in RequestCatalogs
    /\ SearchIdle
    /\ ConsoleIdle
    /\ SendIdle

\* no product: the messages are shown and the front end waits for the next input
\* (`return` at handlers.py:229, `continue` at generate_card.py:316)
NotFound(messages) ==
    /\ FreshRequest
    /\ state' = "Idle"
    /\ shown' = messages

\* handlers.py:219-243: a free text is searched; 'searching' is sent, then either
\* handle_not_found's message, with the similar products when there are any, or
\* 'found' and the card request
TelegramQuery ==
    /\ frontend = "telegram"
    /\ Waiting
    /\ \E user_input \in FreeTexts :
        /\ query' = user_input
        /\ find_or_suggest(user_input)
        /\ IF Found(product')
           THEN StartRequest
           ELSE NotFound(<<"searching",
                           IF results' # <<>> THEN "suggestions" ELSE "not found">>)
    /\ UNCHANGED <<frontend, catalog, raised, schemaVars, consoleVars, sendVars>>

\* generate_card.py:312-316: a line that is no command is searched;
\* get_product_info has printed 'not found' when it returns None
ConsoleQuery ==
    /\ frontend = "console"
    /\ Waiting
    /\ \E user_input \in ConsoleQueries :
        /\ query' = user_input
        /\ product' = get_product_info(user_input, catalog, {})
        /\ IF Found(product')
           THEN StartRequest
           ELSE NotFound(<<"not found">>)
    /\ op' = "console_query"
    /\ UNCHANGED <<frontend, catalog, limit, results, selected, raised>>
    /\ UNCHANGED <<schemaVars, consoleVars, sendVars>>

NextRequest ==
    \/ TelegramQuery
    \/ ConsoleQuery
    \/ InvokeSucceeds
    \/ ConsoleInvokeFails
    \/ TelegramInvokeFails
    \/ Sleep
    \/ ConsoleRender
    \/ TelegramRender

RequestSpec == InitRequest /\ [][NextRequest]_vars

\* C22: a query for which the search finds no record causes no remote call: the
\* front end shows the not-found message (Telegram after its 'searching' notice,
\* with the similar products when search_products finds any) and waits for the next
\* input; a remote call is made only for a record that was found.
C22_NoCallWithoutMatch ==
    /\ calls > 0 => product # 0
    /\ (op \in {"telegram_query", "console_query"} /\ product = 0) =>
          /\ state = "Idle"
          /\ Waiting
          /\ calls = 0
          /\ log = <<>>
          /\ delivered = "none"
          /\ frontend = "console" => shown = <<"not found">>
          /\ frontend = "telegram" =>
                shown = <<"searching", IF results = <<>> THEN "not found" ELSE "suggestions">>

\* after a card was rendered, 'ноутбуки' finds no product but similar ones
C22_Witness ==
    /\ frontend = "telegram"
    /\ op = "telegram_query"
    /\ query = Text_noutbuki
    /\ catalog = <<Name_LaptopPro15>>
    /\ product = 0
    /\ results = <<1>>
    /\ shown = <<"searching", "suggestions">>
    /\ state = "Idle"
    /\ calls = 0

\* the failure texts of generate_and_send_card: handlers.py:428-431 and 460-463
FailureMessages == {"failure", "error"}

\* C30: for a Telegram text whose search found a product, with every send
\* accepted, the messages of the finished request are 'searching', 'found' and then
\* either the card followed by one continue prompt or one failure message; while
\* the card is generated they are 'searching' and 'found' alone.
C30_MessageOrder ==
    (frontend = "telegram" /\ product # 0 /\ send_ok) =>
        IF delivered = "none" THEN shown = <<"searching", "found">>
        ELSE /\ SubSeq(shown, 1, 2) = <<"searching", "found">>
             /\ \/ /\ delivered = "card"
                   /\ SubSeq(shown, 3, Len(shown)) = <<"card", "continue">>
                \/ /\ delivered \in FailureMessages
                   /\ Len(shown) = 3
                   /\ shown[3] = delivered

C30_Witness ==
    /\ frontend = "telegram"
    /\ op = "telegram_query"
    /\ query = Query_kolonka
    /\ product = 2
    /\ delivered = "card"
    /\ send_ok
    /\ calls = max_retries
    /\ shown = <<"searching", "found", "card", "continue">>

=============================================================================
